---- MODULE Spec2Model ----
(***************************************************************************)
(* Model of pdf_chapter_splitter.py: the outline flattener                 *)
(* (get_pdf_outline_info), the range calculator (calculate_page_ranges)    *)
(* and the split loop (perform_pdf_split) as run by split_pdf_by_chapters. *)
(*                                                                         *)
(* Strings are sequences of one-character strings, so that joining paths,  *)
(* zero-padding a sequence number and removing illegal characters are      *)
(* computed character by character.                                        *)
(***************************************************************************)
EXTENDS Integers, Sequences, FiniteSets, TLC

VARIABLES
    tree,          \* the document's bookmark tree (nodes with ordered children)
    outline,       \* reader.outline: the sibling-list encoding of tree
    max_level,     \* --level
    outline_info,  \* the flat bookmark list
    flattened,     \* outline_info as it was handed to calculate_page_ranges
    total_pages,   \* len(reader.pages)
    add_sequence,  \* not --no-sequence
    sections,      \* result of calculate_page_ranges
    i,             \* perform_pdf_split: 0-based index of the section being processed
    files,         \* output directory: filename -> pages of the file
    written,       \* files written so far, in order: [filename, pages]
    pc             \* position in split_pdf_by_chapters

vars == <<tree, outline, max_level, outline_info, flattened, total_pages,
          add_sequence, sections, i, files, written, pc>>

----------------------------------------------------------------------------
(* Bounds *)

MaxNodes == 3
MaxLevelArg == 2
MaxBookmarks == 3
MaxPageIndex == 3
MaxTotalPages == 3
MaxSplitBookmarks == 2
MaxSplitPages == 2

----------------------------------------------------------------------------
(* Values *)

\* page_index of a bookmark whose target resolves to no page of the document
None == -1000

\* " - "
Sep == <<" ", "-", " ">>

\* re.sub(r'[\\/:*?"<>|]', '', ...): the characters removed from file names
IllegalChars == {"\\", "/", ":", "*", "?", "\"", "<", ">", "|"}

OutlineTitles == {<<>>, <<"a">>}
OutlinePages == {0, 1}
RangeTitles == {<<"a">>, <<"b">>}
SplitTitles == {<<"a">>, <<"a", "/">>, <<"b">>}
ParentTitle == <<"p">>

----------------------------------------------------------------------------
(* The outline tree and its encoding as reader.outline *)

\* Labels of a node: title, the page its target resolves to (None when it
\* resolves to no page), and whether resolving it raises.
NodeLabels ==
    {[title |-> t, page |-> p, raises |-> FALSE] : t \in OutlineTitles, p \in OutlinePages \cup {None}}
    \cup {[title |-> t, page |-> None, raises |-> TRUE] : t \in OutlineTitles}

MkNode(l, c) == [title |-> l.title, page |-> l.page, raises |-> l.raises, children |-> c]

\* The forest whose nodes, in pre-order, have the depths d[lo..hi] and the
\* labels l[lo..hi]; its roots are the nodes of the given depth.
RECURSIVE BuildForest(_, _, _, _, _)
BuildForest(d, l, lo, hi, depth) ==
    IF lo > hi THEN <<>>
    ELSE LET roots == {k \in (lo + 1)..hi : d[k] = depth}
             next == IF roots = {} THEN hi + 1 ELSE CHOOSE k \in roots : \A j \in roots : k <= j
         IN  <<MkNode(l[lo], BuildForest(d, l, lo + 1, next - 1, depth + 1))>>
               \o BuildForest(d, l, next, hi, depth)

\* The depth sequences of the ordered forests with n nodes, in pre-order
Shapes(n) ==
    {d \in [1..n -> 1..n] : \A k \in 1..n : d[k] <= (IF k = 1 THEN 1 ELSE d[k - 1] + 1)}

\* reader.outline: each node is a Destination, followed by a nested list
\* holding its children when it has any.
RECURSIVE Encode(_)
Encode(forest) ==
    IF forest = <<>> THEN <<>>
    ELSE LET n == Head(forest)
             dest == [kind |-> "dest", title |-> n.title, page |-> n.page,
                      raises |-> n.raises, items |-> <<>>]
             sub == [kind |-> "list", title |-> <<>>, page |-> None,
                     raises |-> FALSE, items |-> Encode(n.children)]
         IN  <<dest>> \o (IF n.children = <<>> THEN <<>> ELSE <<sub>>) \o Encode(Tail(forest))

----------------------------------------------------------------------------
(* get_pdf_outline_info *)

\* line 21: f"{parent_path} - {title}" if parent_path else title
full_path_name(parent_path, title) ==
    IF parent_path # <<>> THEN parent_path \o Sep \o title ELSE title

\* line 28, with <= for <
descend_one_too_deep(current_level, maxlevel) == maxlevel = 0 \/ current_level <= maxlevel

\* line 28: max_level == 0 or current_level < max_level
descend(current_level, maxlevel) == maxlevel = 0 \/ current_level < maxlevel

\* line 26: (i + 1 < len(outline)) and isinstance(outline[i+1], list)   (k is 1-based)
has_sub_list(ol, k) == k + 1 <= Len(ol) /\ ol[k + 1].kind = "list"

\* lines 32 and 37: the index of the item the loop looks at next, after a
\* Destination that was appended
next_index(ol, k) == IF has_sub_list(ol, k) THEN k + 2 ELSE k + 1

\* lines 16-39: the entries appended from item k of this list on
RECURSIVE outline_from(_, _, _, _, _)
outline_from(ol, k, current_level, maxlevel, parent_path) ==
    IF k > Len(ol) THEN <<>>
    ELSE LET item == ol[k] IN
         IF item.kind # "dest"
         THEN outline_from(ol, k + 1, current_level, maxlevel, parent_path)
         ELSE IF item.raises
         THEN \* the except clause: nothing appended, the sub-list check not reached
              outline_from(ol, k + 1, current_level, maxlevel, parent_path)
         ELSE LET fpn == full_path_name(parent_path, item.title)
                  entry == [title |-> item.title, page_index |-> item.page, full_path_name |-> fpn]
                  sub == IF has_sub_list(ol, k) /\ descend(current_level, maxlevel)
                         THEN outline_from(ol[k + 1].items, 1, current_level + 1, maxlevel, fpn)
                         ELSE <<>>
              IN  <<entry>> \o sub
                    \o outline_from(ol, next_index(ol, k), current_level, maxlevel, parent_path)

get_pdf_outline_info(ol, current_level, maxlevel, parent_path) ==
    outline_from(ol, 1, current_level, maxlevel, parent_path)

\* The current_level at which each entry of get_pdf_outline_info was appended,
\* in the same order.
RECURSIVE levels_from(_, _, _, _)
levels_from(ol, k, current_level, maxlevel) ==
    IF k > Len(ol) THEN <<>>
    ELSE LET item == ol[k] IN
         IF item.kind # "dest" \/ item.raises
         THEN levels_from(ol, k + 1, current_level, maxlevel)
         ELSE LET sub == IF has_sub_list(ol, k) /\ descend(current_level, maxlevel)
                         THEN levels_from(ol[k + 1].items, 1, current_level + 1, maxlevel)
                         ELSE <<>>
              IN  <<current_level>> \o sub
                    \o levels_from(ol, next_index(ol, k), current_level, maxlevel)

entry_levels(ol, maxlevel) == levels_from(ol, 1, 1, maxlevel)

\* line 157: [item for item in outline_info if item["page_index"] is not None]
HasPage(item) == item.page_index # None
filter_none(info) == SelectSeq(info, HasPage)

----------------------------------------------------------------------------
(* calculate_page_ranges *)

\* line 49 with ties reversed: x goes before the items of equal page_index
sort_insert_before_equal(sorted, x) ==
    LET k == Cardinality({j \in 1..Len(sorted) : sorted[j].page_index < x.page_index})
    IN  SubSeq(sorted, 1, k) \o <<x>> \o SubSeq(sorted, k + 1, Len(sorted))

\* line 49: list.sort is stable, so x goes after every item whose key is <= its own
sort_insert(sorted, x) ==
    LET k == Cardinality({j \in 1..Len(sorted) : sorted[j].page_index <= x.page_index})
    IN  SubSeq(sorted, 1, k) \o <<x>> \o SubSeq(sorted, k + 1, Len(sorted))

\* line 49: outline_info.sort(key=lambda x: x["page_index"])
RECURSIVE sort_by_page_index(_)
sort_by_page_index(info) ==
    IF info = <<>> THEN <<>>
    ELSE sort_insert(sort_by_page_index(SubSeq(info, 1, Len(info) - 1)), info[Len(info)])

\* lines 55-57 with the next bookmark's own page as the end
end_index_no_minus_one(info, k, total) ==
    IF k + 1 <= Len(info) THEN info[k + 1].page_index ELSE total - 1

\* lines 55-57 with total_pages as the default end
end_index_default_total(info, k, total) ==
    IF k + 1 <= Len(info) THEN info[k + 1].page_index - 1 ELSE total

\* lines 55-57: the 0-based end of item k (k is 1-based)
end_index(info, k, total) ==
    IF k + 1 <= Len(info) THEN info[k + 1].page_index - 1 ELSE total - 1

\* line 67 never taken
is_last_item_never(info, k) == FALSE

\* line 67: i == len(outline_info) - 1
is_last_item(info, k) == k = Len(info)

\* lines 51-73: what item k of the sorted list appends to sections
section_of(info, k, total) ==
    LET item == info[k]
        start_index == item.page_index
        e == end_index(info, k, total)
    IN  IF start_index <= e
        THEN <<[name |-> item.title, full_path_name |-> item.full_path_name,
                start_page |-> start_index + 1, end_page |-> e + 1]>>
        ELSE IF is_last_item(info, k)
        THEN <<[name |-> item.title, full_path_name |-> item.full_path_name,
                start_page |-> start_index + 1, end_page |-> total]>>
        ELSE <<>>

RECURSIVE sections_from(_, _, _)
sections_from(info, k, total) ==
    IF k > Len(info) THEN <<>>
    ELSE section_of(info, k, total) \o sections_from(info, k + 1, total)

\* lines 41-75, given the list already sorted by line 49
calculate_page_ranges(sorted_info, total) == sections_from(sorted_info, 1, total)

----------------------------------------------------------------------------
(* perform_pdf_split *)

\* line 94 negated: the section is not skipped
valid_range(section, total) ==
    ~ (section.start_page - 1 < 0 \/ section.end_page - 1 >= total
       \/ section.start_page - 1 > section.end_page - 1)

\* lines 98-99 with range(start, end)
section_pages_short(section) ==
    [k \in 1..(section.end_page - section.start_page) |-> section.start_page + k - 1]

\* lines 98-99: the pages added to the writer, as 1-based page numbers
section_pages(section) ==
    [k \in 1..(section.end_page - section.start_page + 1) |-> section.start_page + k - 1]

\* line 109: re.sub(r'[\\/:*?"<>|]', '', name_to_clean)
IsLegalChar(c) == c \notin IllegalChars
cleaned_name(name) == SelectSeq(name, IsLegalChar)

\* lines 102-107
name_to_clean(section, maxlevel) ==
    IF maxlevel # 1 THEN section.full_path_name ELSE section.name

DigitChars == <<"0", "1", "2", "3", "4", "5", "6", "7", "8", "9">>

\* str(n) for n >= 0
RECURSIVE str(_)
str(n) == IF n < 10 THEN <<DigitChars[n + 1]>> ELSE str(n \div 10) \o <<DigitChars[(n % 10) + 1]>>

\* f"{n:0{width}d}"
RECURSIVE zero_pad(_, _)
zero_pad(digits, width) == IF Len(digits) >= width THEN digits ELSE zero_pad(<<"0">> \o digits, width)

\* line 86: len(str(total_sections))
num_digits(secs) == Len(str(Len(secs)))

\* lines 111-115: the file name of the section at 0-based index k
output_filename(secs, k, addseq, maxlevel) ==
    LET cleaned == cleaned_name(name_to_clean(secs[k + 1], maxlevel))
    IN  IF addseq
        THEN zero_pad(str(k + 1), num_digits(secs)) \o <<"_">> \o cleaned \o <<".", "p", "d", "f">>
        ELSE cleaned \o <<".", "p", "d", "f">>

\* open(output_filepath, 'wb') followed by writer.write: the file holds pages
WriteFile(dir, filename, pages) ==
    [f \in (DOMAIN dir) \cup {filename} |-> IF f = filename THEN pages ELSE dir[f]]


----------------------------------------------------------------------------
(* Inputs *)

Leaf(t, p) == MkNode([title |-> t, page |-> p, raises |-> FALSE], <<>>)

\* A bookmark below a parent whose own target resolves to no page: line 157
\* removes the parent's entry and keeps the child's, with its two-part path.
Nested(t, p) == MkNode([title |-> ParentTitle, page |-> None, raises |-> FALSE], <<Leaf(t, p)>>)

\* Sequences over S of length 0..n
SeqsUpTo(S, n) == UNION {[1..k -> S] : k \in 0..n}

\* Top-level bookmarks only; page indices from -1 (a page that is not in the
\* document) to beyond the last page.
RangeForests ==
    SeqsUpTo({Leaf(t, p) : t \in RangeTitles, p \in (-1)..MaxPageIndex}, MaxBookmarks)

SplitForests ==
    SeqsUpTo({Leaf(t, p) : t \in SplitTitles, p \in 0..(MaxSplitPages - 1)}
             \cup {Nested(t, p) : t \in SplitTitles, p \in 0..(MaxSplitPages - 1)},
             MaxSplitBookmarks)

EmptyDir == [f \in {} |-> <<>>]

----------------------------------------------------------------------------
(* split_pdf_by_chapters *)

\* The call split_pdf_by_chapters(pdf_path, output_dir, add_sequence, max_level)
Called(levels, addseqs) ==
    /\ tree = <<>>
    /\ outline = <<>>
    /\ max_level \in levels
    /\ outline_info = <<>>
    /\ flattened = <<>>
    /\ total_pages = 0
    /\ add_sequence \in addseqs
    /\ sections = <<>>
    /\ i = 0
    /\ files = EmptyDir
    /\ written = <<>>
    /\ pc = "start"

\* lines 144-149: the document is opened; it has the bookmark tree t and
\* total pages
OpenPdf(t, total) ==
    /\ pc = "start"
    /\ tree' = t
    /\ outline' = Encode(t)
    /\ total_pages' = total
    /\ pc' = "outline"
    /\ UNCHANGED <<max_level, outline_info, flattened, add_sequence, sections, i,
                   files, written>>

\* lines 150-152: if not outline: return
NoOutline ==
    /\ pc = "outline"
    /\ outline = <<>>
    /\ pc' = "no_outline"
    /\ UNCHANGED <<tree, outline, max_level, outline_info, flattened, total_pages,
                   add_sequence, sections, i, files, written>>

\* line 154: outline_info = get_pdf_outline_info(outline, reader, max_level=max_level)
GetOutlineInfo ==
    /\ pc = "outline"
    /\ outline # <<>>
    /\ outline_info' = get_pdf_outline_info(outline, 1, max_level, <<>>)
    /\ pc' = "flat"
    /\ UNCHANGED <<tree, outline, max_level, flattened, total_pages,
                   add_sequence, sections, i, files, written>>

\* lines 157-161: entries without a page are removed; nothing left: return
FilterNone ==
    /\ pc = "flat"
    /\ outline_info' = filter_none(outline_info)
    /\ flattened' = outline_info'
    /\ pc' = IF outline_info' = <<>> THEN "no_bookmarks" ELSE "ranging"
    /\ UNCHANGED <<tree, outline, max_level, total_pages,
                   add_sequence, sections, i, files, written>>

\* lines 163-167: sections = calculate_page_ranges(outline_info, total_pages),
\* which sorts outline_info in place; no sections: return
CalculatePageRanges ==
    /\ pc = "ranging"
    /\ outline_info' = sort_by_page_index(outline_info)
    /\ sections' = calculate_page_ranges(outline_info', total_pages)
    /\ pc' = IF sections' = <<>> THEN "no_sections" ELSE "splitting"
    /\ i' = 0
    /\ UNCHANGED <<tree, outline, max_level, flattened, total_pages, add_sequence,
                   files, written>>

\* lines 94-96: the range is invalid, the section is skipped
SkipSection ==
    /\ pc = "splitting"
    /\ i < Len(sections)
    /\ ~ valid_range(sections[i + 1], total_pages)
    /\ i' = i + 1
    /\ UNCHANGED <<tree, outline, max_level, outline_info, flattened, total_pages,
                   add_sequence, sections, files, written, pc>>

\* lines 98-121: the section's pages are written to its file
WriteSection ==
    /\ pc = "splitting"
    /\ i < Len(sections)
    /\ valid_range(sections[i + 1], total_pages)
    /\ LET filename == output_filename(sections, i, add_sequence, max_level)
           pages == section_pages(sections[i + 1])
       IN  /\ files' = WriteFile(files, filename, pages)
           /\ written' = Append(written, [filename |-> filename, pages |-> pages])
    /\ i' = i + 1
    /\ UNCHANGED <<tree, outline, max_level, outline_info, flattened, total_pages,
                   add_sequence, sections, pc>>

\* lines 119-120 raise (open fails, or write fails on the file just truncated):
\* nothing in the loop catches it, it leaves perform_pdf_split and is caught
\* at line 172
WriteError ==
    /\ pc = "splitting"
    /\ i < Len(sections)
    /\ valid_range(sections[i + 1], total_pages)
    /\ \E opened \in BOOLEAN :
          files' = IF opened
                   THEN WriteFile(files, output_filename(sections, i, add_sequence, max_level), <<>>)
                   ELSE files
    /\ pc' = "error"
    /\ UNCHANGED <<tree, outline, max_level, outline_info, flattened, total_pages,
                   add_sequence, sections, i, written>>

\* the loop of line 88 is exhausted; line 170
FinishSplit ==
    /\ pc = "splitting"
    /\ i = Len(sections)
    /\ pc' = "done"
    /\ UNCHANGED <<tree, outline, max_level, outline_info, flattened, total_pages,
                   add_sequence, sections, i, files, written>>

Run ==
    \/ NoOutline
    \/ GetOutlineInfo
    \/ FilterNone
    \/ CalculatePageRanges
    \/ SkipSection
    \/ WriteSection
    \/ WriteError
    \/ FinishSplit

\* Documents with any bookmark tree of up to MaxNodes nodes, one page
InitOutline == Called(0..MaxLevelArg, {TRUE})
OpenOutlineDoc ==
    /\ pc = "start"
    /\ \E n \in 0..MaxNodes : \E d \in Shapes(n), l \in [1..n -> NodeLabels] :
          OpenPdf(BuildForest(d, l, 1, n, 1), 1)
NextOutline == OpenOutlineDoc \/ Run
SpecOutline == InitOutline /\ [][NextOutline]_vars

\* Documents with top-level bookmarks on any page index, default arguments
InitRanges == Called({1}, {TRUE})
OpenRangesDoc ==
    /\ pc = "start"
    /\ \E t \in RangeForests, total \in 1..MaxTotalPages : OpenPdf(t, total)
NextRanges == OpenRangesDoc \/ Run
SpecRanges == InitRanges /\ [][NextRanges]_vars

\* Documents whose bookmarks' names collide, every naming mode
InitSplit == Called(0..1, BOOLEAN)
OpenSplitDoc ==
    /\ pc = "start"
    /\ \E t \in SplitForests, total \in 1..MaxSplitPages : OpenPdf(t, total)
NextSplit == OpenSplitDoc \/ Run
SpecSplit == InitSplit /\ [][NextSplit]_vars

----------------------------------------------------------------------------
(* Properties of calculate_page_ranges and perform_pdf_split *)

Ranged == pc \in {"splitting", "done", "error", "no_sections"}

Max(S) == CHOOSE x \in S : \A y \in S : y <= x
Min(S) == CHOOSE x \in S : \A y \in S : x <= y

PageIndices == {flattened[k].page_index : k \in 1..Len(flattened)}

\* The positions, in flattener order, of the bookmarks that target page p
SamePage(p) == {k \in 1..Len(flattened) : flattened[k].page_index = p}

\* The bookmark that a stable sort by page_index puts last
LastInPageOrder == flattened[Max(SamePage(Max(PageIndices)))]

\* Every bookmark targets a page of the document
InRange == \A k \in 1..Len(flattened) : flattened[k].page_index \in 0..(total_pages - 1)

IsSectionOf(s, b) ==
    /\ s.name = b.title
    /\ s.full_path_name = b.full_path_name
    /\ s.start_page = b.page_index + 1

\* C1: the sections returned by calculate_page_ranges are contiguous and
\* non-overlapping: each section ends on the page before the next one starts,
\* and start_page is ascending.
C1_Contiguous ==
    Ranged =>
        \A k \in 1..(Len(sections) - 1) :
            /\ sections[k].end_page = sections[k + 1].start_page - 1
            /\ sections[k].start_page < sections[k + 1].start_page

\* Ranges were computed for a list in which a bookmark was dropped and two
\* or more sections remain.
W_C1 ==
    /\ pc = "splitting"
    /\ Len(sections) >= 2
    /\ Len(sections) < Len(outline_info)

\* C2: the bookmark that is last in sorted page order always gets a section,
\* that section is the last one returned and its end_page is total_pages.
C2_LastBookmarkKept ==
    Ranged =>
        /\ Len(sections) >= 1
        /\ IsSectionOf(sections[Len(sections)], LastInPageOrder)
        /\ sections[Len(sections)].end_page = total_pages

\* The last bookmark points beyond the last page and is still emitted.
W_C2 ==
    /\ pc = "splitting"
    /\ Len(flattened) >= 2
    /\ LastInPageOrder.page_index >= total_pages
    /\ Len(sections) >= 2

\* The pages p that two or more bookmarks target and that a bookmark with a
\* larger page_index follows
DupPages ==
    {p \in PageIndices : Cardinality(SamePage(p)) >= 2 /\ \E q \in PageIndices : q > p}

FirstAt(p) == flattened[Min(SamePage(p))]
LastAt(p) == flattened[Max(SamePage(p))]
SectionsAt(p) == {k \in 1..Len(sections) : sections[k].start_page = p + 1}

\* A bookmark is dropped only if its computed end is before its start and it
\* is not the final sorted item (outline_info is the sorted list).
DroppedOnlyWhenEmpty ==
    Len(outline_info) - Len(sections) =
        Cardinality({k \in 1..(Len(outline_info) - 1) :
                        outline_info[k].page_index > outline_info[k + 1].page_index - 1})

\* C3 as stated: of the bookmarks sharing a page, followed by a larger page,
\* the first in flattener order gets a section with start_page <= end_page.
CX_C3_FirstDuplicateKept ==
    Ranged =>
        /\ \A p \in DupPages :
              \E k \in 1..Len(sections) :
                  /\ IsSectionOf(sections[k], FirstAt(p))
                  /\ sections[k].start_page <= sections[k].end_page
        /\ DroppedOnlyWhenEmpty

\* C3 amended: of the bookmarks sharing a page, followed by a larger page, the
\* LAST in flattener order gets the one section that starts on that page, with
\* start_page <= end_page; a bookmark is dropped only if its computed end is
\* before its start and it is not the final sorted item.
C3_LastDuplicateKept ==
    Ranged =>
        /\ \A p \in DupPages :
              /\ Cardinality(SectionsAt(p)) = 1
              /\ \A k \in SectionsAt(p) :
                    /\ IsSectionOf(sections[k], LastAt(p))
                    /\ sections[k].start_page <= sections[k].end_page
        /\ DroppedOnlyWhenEmpty

\* Two bookmarks with different titles share a page and a later page follows.
W_C3 ==
    /\ pc = "splitting"
    /\ \E p \in DupPages : FirstAt(p).title # LastAt(p).title

RECURSIVE ConcatPages(_)
ConcatPages(ws) == IF ws = <<>> THEN <<>> ELSE Head(ws).pages \o ConcatPages(Tail(ws))

PageRange(a, b) == [k \in 1..(b - a + 1) |-> a + k - 1]

\* C4 as stated: with every page_index in 0..total_pages-1, the pages of the
\* written sections, in order, are the whole document 1..total_pages.
CX_C4_RoundTripWholeDocument ==
    (pc = "done" /\ InRange) => ConcatPages(written) = PageRange(1, total_pages)

\* C4 amended: with every page_index in 0..total_pages-1, the pages of the
\* written sections, in order, are the pages from the first bookmark's page
\* to total_pages; that is the whole document exactly when some bookmark has
\* page_index 0.
C4_RoundTripFromFirstBookmark ==
    (pc = "done" /\ InRange) =>
        /\ ConcatPages(written) = PageRange(Min(PageIndices) + 1, total_pages)
        /\ (ConcatPages(written) = PageRange(1, total_pages)) <=> (0 \in PageIndices)

\* The split finished for in-range bookmarks none of which is on the first page.
W_C4 ==
    /\ pc = "done"
    /\ InRange
    /\ Min(PageIndices) > 0
    /\ Len(written) >= 2

\* C10: if every page_index is in 0..total_pages-1, every section satisfies
\* 1 <= start_page <= end_page <= total_pages, and perform_pdf_split skips none.
C10_InRangeSectionsValid ==
    (Ranged /\ InRange) =>
        /\ \A k \in 1..Len(sections) :
              /\ 1 <= sections[k].start_page
              /\ sections[k].start_page <= sections[k].end_page
              /\ sections[k].end_page <= total_pages
              /\ valid_range(sections[k], total_pages)
        /\ pc = "splitting" => Len(written) = i
        /\ pc = "done" => Len(written) = Len(sections)

\* The split finished for in-range bookmarks, two sections or more written.
W_C10 ==
    /\ pc = "done"
    /\ InRange
    /\ Len(sections) >= 2
    /\ Len(written) = Len(sections)

\* The 0-based indices of the sections whose loop body was entered: those
\* before i, and i itself when the run ended inside its body.
Attempted == IF pc = "error" THEN 0..i ELSE 0..(i - 1)

\* C5 as stated: a write error on section k does not stop the batch, so when
\* the run has ended every section of the list has been attempted.
CX_C5_BatchContinuesAfterWriteError ==
    pc \in {"done", "error"} => Attempted = 0..(Len(sections) - 1)

ValidSections == {k \in 1..Len(sections) : valid_range(sections[k], total_pages)}

\* C9 as stated: a split that finished without write error leaves one distinct
\* file per valid section.
CX_C9_OneFilePerSection ==
    pc = "done" => Cardinality(DOMAIN files) = Cardinality(ValidSections)


----------------------------------------------------------------------------
(* Properties of get_pdf_outline_info *)

\* The titles joined by " - "
RECURSIVE JoinTitles(_)
JoinTitles(titles) ==
    IF Len(titles) = 1 THEN titles[1]
    ELSE JoinTitles(SubSeq(titles, 1, Len(titles) - 1)) \o Sep \o titles[Len(titles)]

\* Depth-first pre-order walk of the tree itself: one entry per node, its
\* path the titles of its ancestors and its own joined by " - ".
RECURSIVE PreOrder(_, _)
PreOrder(forest, ancestors) ==
    IF forest = <<>> THEN <<>>
    ELSE LET n == Head(forest)
             chain == Append(ancestors, n.title)
         IN  <<[title |-> n.title, page_index |-> n.page, full_path_name |-> JoinTitles(chain)]>>
               \o PreOrder(n.children, chain)
               \o PreOrder(Tail(forest), ancestors)

RECURSIVE AllResolve(_)
AllResolve(forest) ==
    \A k \in 1..Len(forest) :
        /\ ~ forest[k].raises
        /\ forest[k].page # None
        /\ AllResolve(forest[k].children)

\* C6 as stated: with max_level = 0 and every node resolving to a page, the
\* output is one entry per node in depth-first pre-order, each with
\* full_path_name the ancestor titles and its own title joined by " - ".
CX_C6_PreOrderJoinedPaths ==
    (pc = "flat" /\ max_level = 0 /\ AllResolve(tree)) =>
        outline_info = PreOrder(tree, <<>>)

\* The subsequence of q at the positions in keep
RECURSIVE Restrict(_, _, _)
Restrict(q, keep, k) ==
    IF k > Len(q) THEN <<>>
    ELSE (IF k \in keep THEN <<q[k]>> ELSE <<>>) \o Restrict(q, keep, k + 1)

\* C7: with max_level = N >= 1 no entry comes from a level greater than N, and
\* the output is the max_level = 0 output restricted to the entries of level
\* <= N, in the same order.
C7_DepthLimitRestricts ==
    (pc = "flat" /\ max_level >= 1) =>
        LET all == get_pdf_outline_info(outline, 1, 0, <<>>)
            lv == entry_levels(outline, 0)
            keep == {k \in 1..Len(all) : lv[k] <= max_level}
            lvN == entry_levels(outline, max_level)
        IN  /\ Len(lv) = Len(all)
            /\ outline_info = Restrict(all, keep, 1)
            /\ \A k \in 1..Len(lvN) : lvN[k] <= max_level

\* The depth limit cut entries off, and entries of two levels remain.
W_C7 ==
    /\ pc = "flat"
    /\ max_level >= 2
    /\ Len(outline_info) < Len(get_pdf_outline_info(outline, 1, 0, <<>>))
    /\ Len(outline_info) >= 2

\* Pre-order walk that leaves out only the nodes whose own target fails to
\* resolve, within the depth limit.
RECURSIVE SkipOnlyFailed(_, _, _)
SkipOnlyFailed(forest, level, maxlevel) ==
    IF forest = <<>> THEN <<>>
    ELSE LET n == Head(forest)
         IN  (IF n.raises THEN <<>> ELSE <<[title |-> n.title, page_index |-> n.page]>>)
               \o (IF maxlevel = 0 \/ level < maxlevel
                   THEN SkipOnlyFailed(n.children, level + 1, maxlevel)
                   ELSE <<>>)
               \o SkipOnlyFailed(Tail(forest), level, maxlevel)

TitlesAndPages(info) ==
    [k \in 1..Len(info) |-> [title |-> info[k].title, page_index |-> info[k].page_index]]

\* C8 as stated: a node whose target fails to resolve is the only one skipped;
\* later siblings and the failed node's own children are emitted, once each,
\* in pre-order.
CX_C8_OnlyFailedNodeSkipped ==
    pc = "flat" => TitlesAndPages(outline_info) = SkipOnlyFailed(tree, 1, max_level)


====
